---- MODULE Spec2Model ----
(***************************************************************************)
(* Model of src/app.py: the chat alert bot.                                *)
(*                                                                         *)
(* Python strings that the code takes apart (command text, tokens,        *)
(* service names) are sequences of one-character strings; None is the     *)
(* record None and a present optional value v is Some(v).                  *)
(***************************************************************************)
EXTENDS Integers, Sequences, FiniteSets, TLC

VARIABLES
    ASK_DEFAULT_SINCE_DAYS,  \* app.py:23, read from the environment at import
    ASK_MAX_ROWS,            \* app.py:24
    PROJECT,                 \* app.py:17, TRUE iff GOOGLE_CLOUD_PROJECT is set
    CHAT_WEBHOOK_URL,        \* app.py:16, TRUE iff the URL is non-empty
    gen,                     \* app.py:29-37, TRUE iff _gen is a GenerativeModel
    table,                   \* the BigQuery table PROJECT.BQ_DATASET.BQ_TABLE
    now,                     \* datetime.now(timezone.utc), in days
    call,                    \* the operation under way and its arguments
    ret                      \* what the operation returned

vars == <<ASK_DEFAULT_SINCE_DAYS, ASK_MAX_ROWS, PROJECT, CHAT_WEBHOOK_URL, gen,
          table, now, call, ret>>

config == <<ASK_DEFAULT_SINCE_DAYS, ASK_MAX_ROWS, PROJECT, CHAT_WEBHOOK_URL, gen>>

(***************************************************************************)
(* Bounds of the model.                                                    *)
(***************************************************************************)
MaxTokens == 3

MaxTableRows == 3

MaxDay == 2

MaxCap == 2

MaxRowsLen == 52

MaxAlerts == 1

MaxTick == 1

(***************************************************************************)
(* Python values.                                                          *)
(***************************************************************************)
None == [some |-> FALSE, v |-> <<>>]

Some(x) == [some |-> TRUE, v |-> x]

Max(a, b) == IF a >= b THEN a ELSE b

Min(a, b) == IF a <= b THEN a ELSE b

Whitespace == {" ", "\t"}

UpperChars == <<"A", "B", "C", "D", "E", "F", "G", "H", "I", "J", "K", "L", "M",
                "N", "O", "P", "Q", "R", "S", "T", "U", "V", "W", "X", "Y", "Z">>

LowerChars == <<"a", "b", "c", "d", "e", "f", "g", "h", "i", "j", "k", "l", "m",
                "n", "o", "p", "q", "r", "s", "t", "u", "v", "w", "x", "y", "z">>

\* str.lower() on one character
LowerChar(c) ==
    IF \E i \in 1..26 : UpperChars[i] = c
    THEN LowerChars[CHOOSE i \in 1..26 : UpperChars[i] = c]
    ELSE c

\* str.lower()
Lower(s) == [i \in 1..Len(s) |-> LowerChar(s[i])]

\* str.startswith(prefix)
StartsWith(s, prefix) ==
    Len(s) >= Len(prefix) /\ SubSeq(s, 1, Len(prefix)) = prefix

\* str.split(): split on runs of whitespace, no empty strings in the result
RECURSIVE SplitFrom(_, _, _)
SplitFrom(s, i, cur) ==
    IF i > Len(s)
    THEN IF cur = <<>> THEN <<>> ELSE <<cur>>
    ELSE IF s[i] \in Whitespace
         THEN IF cur = <<>>
              THEN SplitFrom(s, i + 1, <<>>)
              ELSE <<cur>> \o SplitFrom(s, i + 1, <<>>)
         ELSE SplitFrom(s, i + 1, Append(cur, s[i]))

Split(s) == SplitFrom(s, 1, <<>>)

\* str.strip()
RECURSIVE LStrip(_)
LStrip(s) == IF s # <<>> /\ Head(s) \in Whitespace THEN LStrip(Tail(s)) ELSE s

RECURSIVE RStrip(_)
RStrip(s) ==
    IF s # <<>> /\ s[Len(s)] \in Whitespace
    THEN RStrip(SubSeq(s, 1, Len(s) - 1))
    ELSE s

Strip(s) == RStrip(LStrip(s))

\* sep.join(parts)
RECURSIVE Join(_, _)
Join(parts, sep) ==
    IF parts = <<>> THEN <<>>
    ELSE IF Len(parts) = 1 THEN parts[1]
    ELSE parts[1] \o sep \o Join(Tail(parts), sep)

\* token.split(":", 1)[1]: the text after the first colon
AfterFirstColon(token) ==
    LET k == CHOOSE i \in 1..Len(token) :
                 token[i] = ":" /\ \A j \in 1..(i - 1) : token[j] # ":"
    IN  SubSeq(token, k + 1, Len(token))

Digits == <<"0", "1", "2", "3", "4", "5", "6", "7", "8", "9">>

IsDigit(c) == \E i \in 1..10 : Digits[i] = c

DigitVal(c) == (CHOOSE i \in 1..10 : Digits[i] = c) - 1

RECURSIVE DigitsValue(_, _)
DigitsValue(s, acc) ==
    IF s = <<>> THEN acc
    ELSE IF Head(s) = "_" THEN DigitsValue(Tail(s), acc)
    ELSE DigitsValue(Tail(s), acc * 10 + DigitVal(Head(s)))

\* int(str): surrounding whitespace, an optional sign, decimal digits with
\* single underscores between them; anything else is ValueError (ok = FALSE)
IntOf(str) ==
    LET s      == Strip(str)
        signed == s # <<>> /\ s[1] \in {"+", "-"}
        body   == IF signed THEN Tail(s) ELSE s
        valid  == /\ body # <<>>
                  /\ IsDigit(body[1])
                  /\ IsDigit(body[Len(body)])
                  /\ \A i \in 1..Len(body) : IsDigit(body[i]) \/ body[i] = "_"
                  /\ \A i \in 1..(Len(body) - 1) :
                         ~(body[i] = "_" /\ body[i + 1] = "_")
    IN  IF valid
        THEN [ok |-> TRUE,
              v  |-> IF signed /\ s[1] = "-"
                     THEN 0 - DigitsValue(body, 0)
                     ELSE DigitsValue(body, 0)]
        ELSE [ok |-> FALSE, v |-> 0]

(***************************************************************************)
(* parse_prompt_and_filters, app.py:165-186.                               *)
(***************************************************************************)
ServicePrefix == <<"s", "e", "r", "v", "i", "c", "e", ":">>

SincePrefix == <<"s", "i", "n", "c", "e", ":">>

\* the body of the for loop on one token; st = [service, since_days, parts]
ParseTokenResetsSince(st, token, default_since_days) ==
    IF StartsWith(Lower(token), ServicePrefix)
    THEN [st EXCEPT !.service = Some(AfterFirstColon(token))]
    ELSE IF StartsWith(Lower(token), SincePrefix)
         THEN LET n == IntOf(AfterFirstColon(token))
              IN  IF n.ok
                  THEN [st EXCEPT !.since_days = Max(1, n.v)]
                  ELSE [st EXCEPT !.since_days = default_since_days]
         ELSE [st EXCEPT !.parts = Append(@, token)]

ParseToken(st, token, default_since_days) ==
    IF StartsWith(Lower(token), ServicePrefix)
    THEN [st EXCEPT !.service = Some(AfterFirstColon(token))]
    ELSE IF StartsWith(Lower(token), SincePrefix)
         THEN LET n == IntOf(AfterFirstColon(token))
              IN  IF n.ok
                  THEN [st EXCEPT !.since_days = Max(1, n.v)]
                  ELSE st
         ELSE [st EXCEPT !.parts = Append(@, token)]

RECURSIVE ParseLoop(_, _, _)
ParseLoop(st, tokens, default_since_days) ==
    IF tokens = <<>> THEN st
    ELSE ParseLoop(ParseToken(st, Head(tokens), default_since_days),
                   Tail(tokens), default_since_days)

parse_prompt_and_filters(text, default_since_days) ==
    LET st == ParseLoop([service    |-> None,
                         since_days |-> default_since_days,
                         parts      |-> <<>>],
                        Split(text), default_since_days)
    IN  [prompt     |-> Strip(Join(st.parts, <<" ">>)),
         service    |-> st.service,
         since_days |-> st.since_days]

(***************************************************************************)
(* Inputs of the parser: command texts assembled from a pool of tokens.    *)
(***************************************************************************)
TokenPool ==
    { <<"w", "h", "y">>,
      <<"F", "a", "i", "l", "?">>,
      <<"s", "e", "r", "v", "i", "c", "e", ":", "a", "u">>,
      <<"S", "E", "R", "V", "I", "C", "E", ":", "D", "b">>,
      <<"s", "e", "r", "v", "i", "c", "e", ":">>,
      <<"s", "e", "r", "v", "i", "c", "e", ":", "a", ":", "b">>,
      <<"x", "s", "e", "r", "v", "i", "c", "e", ":", "a">>,
      <<"s", "i", "n", "c", "e", ":", "3">>,
      <<"S", "i", "n", "c", "e", ":", "0">>,
      <<"s", "i", "n", "c", "e", ":", "-", "2">>,
      <<"s", "i", "n", "c", "e", ":", "+", "1", "_", "2">>,
      <<"s", "i", "n", "c", "e", ":", "a", "b", "c">>,
      <<"s", "i", "n", "c", "e", ":">>,
      <<"s", "i", "n", "c", "e">> }

TokenSeqs == UNION { [1..n -> TokenPool] : n \in 0..MaxTokens }

\* the same tokens laid out as text in two ways
Layouts(toks) ==
    { Join(toks, <<" ">>),
      <<"\t">> \o Join(toks, <<" ", " ">>) \o <<" ">> }

DefaultSinceChoices == {0, 7}

InitParse ==
    /\ ASK_DEFAULT_SINCE_DAYS \in DefaultSinceChoices
    /\ ASK_MAX_ROWS = 1
    /\ PROJECT = FALSE
    /\ CHAT_WEBHOOK_URL = FALSE
    /\ gen = FALSE
    /\ table = {}
    /\ now = 0
    /\ \E toks \in TokenSeqs : \E text \in Layouts(toks) :
           call = [op |-> "parse_prompt_and_filters", toks |-> toks, text |-> text]
    /\ ret = [done |-> FALSE]

Parse ==
    /\ call.op = "parse_prompt_and_filters"
    /\ ~ret.done
    /\ ret' = [done  |-> TRUE,
               value |-> parse_prompt_and_filters(call.text, ASK_DEFAULT_SINCE_DAYS)]
    /\ UNCHANGED <<config, table, now, call>>

NextParse == Parse

SpecParse == InitParse /\ [][NextParse]_vars

(***************************************************************************)
(* The parser's claims.                                                    *)
(***************************************************************************)
ParseDone == call.op = "parse_prompt_and_filters" /\ ret.done

\* C1: for every text and every configured default lookback, the parser
\* returns a question, a service that is absent or a string, and an integer
\* since_days >= 1.
C1_SinceDaysAtLeastOne ==
    ParseDone =>
        /\ ret.value.prompt \in Seq(STRING)
        /\ ret.value.service.some \in BOOLEAN
        /\ ret.value.since_days \in Int
        /\ ret.value.since_days >= 1

\* The reference algorithm of the parser, stated on the token sequence.
RefIsService(t) ==
    Len(t) >= 8 /\ \A i \in 1..8 : LowerChar(t[i]) = ServicePrefix[i]

RefIsSince(t) ==
    ~RefIsService(t) /\ Len(t) >= 6 /\ \A i \in 1..6 : LowerChar(t[i]) = SincePrefix[i]

RefIsPlain(t) == ~RefIsService(t) /\ ~RefIsSince(t)

RefSinceValue(t) == IntOf(SubSeq(t, 7, Len(t)))

RefQuestion(toks) == Join(SelectSeq(toks, RefIsPlain), <<" ">>)

RefService(toks) ==
    LET idx == {i \in 1..Len(toks) : RefIsService(toks[i])}
    IN  IF idx = {} THEN None
        ELSE LET last == CHOOSE i \in idx : \A j \in idx : j <= i
             IN  Some(SubSeq(toks[last], 9, Len(toks[last])))

RefSinceDays(toks, default) ==
    LET idx == {i \in 1..Len(toks) : RefIsSince(toks[i]) /\ RefSinceValue(toks[i]).ok}
    IN  IF idx = {} THEN default
        ELSE LET last == CHOOSE i \in idx : \A j \in idx : j <= i
                 n    == RefSinceValue(toks[last]).v
             IN  IF n < 1 THEN 1 ELSE n

\* C2: the parser returns what the reference algorithm returns: the plain
\* tokens in order joined by single spaces, the remainder of the last
\* service: token, and max(1, n) of the last since: token that parses.
C2_ParseMatchesReference ==
    ParseDone =>
        /\ ret.value.prompt = RefQuestion(call.toks)
        /\ ret.value.service = RefService(call.toks)
        /\ ret.value.since_days = RefSinceDays(call.toks, ASK_DEFAULT_SINCE_DAYS)

\* a valid since: token followed by an invalid one, a service: token, and
\* the earlier valid since value returned instead of the default
C2_Witness ==
    /\ ParseDone
    /\ \E i, j \in 1..Len(call.toks) :
           /\ i < j
           /\ RefIsSince(call.toks[i]) /\ RefSinceValue(call.toks[i]).ok
           /\ RefIsSince(call.toks[j]) /\ ~RefSinceValue(call.toks[j]).ok
           /\ ret.value.since_days = Max(1, RefSinceValue(call.toks[i]).v)
           /\ ret.value.since_days # ASK_DEFAULT_SINCE_DAYS
    /\ \E i \in 1..Len(call.toks) : RefIsService(call.toks[i])

(***************************************************************************)
(* fetch_logs, app.py:188-226.  A row of the table is [id, ts, service];   *)
(* ts is in days.  The query is modelled by what BigQuery does with it.    *)
(***************************************************************************)
\* "if service:", app.py:202 and 217
ServiceTruthy(service) == service.some /\ service.v # <<>>

\* the WHERE clause, app.py:201-204
Where(r, service, start_ts) ==
    /\ r.ts >= start_ts
    /\ ServiceTruthy(service) => Lower(r.service) = Lower(service.v)

\* ORDER BY ts DESC, app.py:210; rows with equal ts come in any order
OrderedDesc(s) == \A i \in 1..(Len(s) - 1) : s[i].ts >= s[i + 1].ts

Orderings(S) ==
    { s \in [1..Cardinality(S) -> S] :
          /\ \A i, j \in 1..Cardinality(S) : i # j => s[i] # s[j]
          /\ OrderedDesc(s) }

\* LIMIT n, app.py:211
NoLimit(s, n) == s

Limit(s, n) == SubSeq(s, 1, Min(n, Len(s)))

\* the sequences fetch_logs may return; outcome is what the storage
\* collaborator does with the query: "ok" or "raise"
fetch_logs(service, since_days, outcome) ==
    IF ~PROJECT THEN {<<>>}
    ELSE IF outcome = "raise" THEN {<<>>}
    ELSE LET start_ts == now - since_days
             selected == {r \in table : Where(r, service, start_ts)}
         IN  { Limit(s, ASK_MAX_ROWS) : s \in Orderings(selected) }

QueryOutcomes == {"ok", "raise"}

(***************************************************************************)
(* Inputs of fetch_logs.                                                   *)
(***************************************************************************)
ServiceNames == { <<"a", "u">>, <<"D", "b">> }

ServiceFilters == { None, Some(<<>>), Some(<<"A", "U">>), Some(<<"d", "b">>) }

RowData == [ts : 0..MaxDay, service : ServiceNames]

Tables ==
    UNION { { { [id |-> i, ts |-> f[i].ts, service |-> f[i].service] : i \in 1..n } :
              f \in [1..n -> RowData] } : n \in 0..MaxTableRows }

InitFetch ==
    /\ ASK_DEFAULT_SINCE_DAYS = 7
    /\ ASK_MAX_ROWS \in 0..MaxCap
    /\ PROJECT \in BOOLEAN
    /\ CHAT_WEBHOOK_URL = FALSE
    /\ gen = FALSE
    /\ table \in Tables
    /\ now = MaxDay
    /\ \E service \in ServiceFilters, since_days \in 1..MaxDay :
           call = [op |-> "fetch_logs", service |-> service, since_days |-> since_days]
    /\ ret = [done |-> FALSE]

Fetch ==
    /\ call.op = "fetch_logs"
    /\ ~ret.done
    /\ \E outcome \in QueryOutcomes :
       \E rows \in fetch_logs(call.service, call.since_days, outcome) :
           ret' = [done |-> TRUE, outcome |-> outcome, value |-> rows]
    /\ UNCHANGED <<config, table, now, call>>

NextFetch == Fetch

SpecFetch == InitFetch /\ [][NextFetch]_vars

(***************************************************************************)
(* The claims of fetch_logs.                                               *)
(***************************************************************************)
FetchDone == call.op = "fetch_logs" /\ ret.done

Returned == {ret.value[i] : i \in 1..Len(ret.value)}

\* C3: whenever the service filter is present, the empty string included,
\* every returned row's service equals the filter case-insensitively.
C3_PresentFilterRestricts ==
    (FetchDone /\ call.service.some) =>
        \A r \in Returned : Lower(r.service) = Lower(call.service.v)

\* C4: fetch_logs returns at most ASK_MAX_ROWS rows, each with a timestamp
\* >= now - since_days, newest first; a row left out that is in the window
\* and passes the filter is no newer than any row returned.
C4_FetchBounded ==
    (FetchDone /\ call.since_days >= 1) =>
        /\ Len(ret.value) <= ASK_MAX_ROWS
        /\ \A r \in Returned : r \in table /\ r.ts >= now - call.since_days
        /\ \A i \in 1..(Len(ret.value) - 1) : ret.value[i].ts >= ret.value[i + 1].ts
        /\ \A q \in table \ Returned : \A r \in Returned :
               ( /\ q.ts >= now - call.since_days
                 /\ call.service.some => Lower(q.service) = Lower(call.service.v) )
               => q.ts <= r.ts

\* the cap cuts the result: more rows are selected than returned, one of them
\* on the inclusive lower bound of the window, and a row is returned
C4_Witness ==
    /\ FetchDone
    /\ call.since_days >= 1
    /\ Len(ret.value) = ASK_MAX_ROWS
    /\ Len(ret.value) >= 1
    /\ \E q \in table \ Returned : q.ts = now - call.since_days
    /\ \E r \in Returned : r.ts > now - call.since_days

(***************************************************************************)
(* llm_answer, app.py:228-245.  A formatted text is the sequence of the    *)
(* pieces of its f-string: literals, numbers and embedded strings.         *)
(***************************************************************************)
Lit(s) == [k |-> "lit", lit |-> s, num |-> 0, str |-> <<>>]

Num(n) == [k |-> "num", lit |-> "", num |-> n, str |-> <<>>]

Str(cs) == [k |-> "str", lit |-> "", num |-> 0, str |-> cs]

\* rows[: min(len(rows), 50)], app.py:232
PromptRowCap == 50

ASK_MAX_ROWS_DEFAULT == 200

AllRows(rows) == rows

ContextRows(rows) == SubSeq(rows, 1, Min(Len(rows), PromptRowCap))

\* app.py:233-237; the serialised list is the list of the rows serialised
BuildPrompt(user_prompt, rows) ==
    [sys      |-> "You are a reliability assistant.",
     context  |-> ContextRows(rows),
     question |-> user_prompt]

\* app.py:245
NotConfiguredText(user_prompt, rows) ==
    << Lit("(Vertex not configured) Based on recent rows ("), Num(Len(rows)),
       Lit(" found), no major anomalies detected. Question: "), Str(user_prompt) >>

\* app.py:239-243; reply is what the collaborator does: [raise, text]
GenerateUncaught(reply) ==
    IF reply.raise
    THEN [raised |-> TRUE, text |-> <<>>]
    ELSE [raised |-> FALSE, text |-> reply.text]

Generate(reply) ==
    IF reply.raise
    THEN [raised |-> FALSE, text |-> <<Lit("(Vertex error: ")>> \o reply.text \o <<Lit(")")>>]
    ELSE [raised |-> FALSE, text |-> reply.text]

llm_answer(user_prompt, rows, reply) ==
    LET prompt == BuildPrompt(user_prompt, rows)
    IN  IF gen
        THEN [called |-> TRUE, prompt |-> prompt] @@ Generate(reply)
        ELSE [called |-> FALSE, prompt |-> prompt, raised |-> FALSE,
              text |-> NotConfiguredText(user_prompt, rows)]

\* what the answering collaborator may do with a prompt
Replies ==
    { [raise |-> FALSE, text |-> <<Lit("auth failed twice")>>],
      [raise |-> FALSE, text |-> <<Lit("(Vertex not configured)")>>],
      [raise |-> TRUE,  text |-> <<Lit("quota exceeded")>>],
      [raise |-> TRUE,  text |-> <<>>] }

(***************************************************************************)
(* Inputs of llm_answer.                                                   *)
(***************************************************************************)
Questions == { <<>>, <<"w", "h", "y">>, <<"w", "h", "y", " ", "F", "a", "i", "l", "?">> }

RowLists ==
    { [i \in 1..n |-> [id |-> i, ts |-> (n - i) \div 30, service |-> <<"a", "u">>]] :
          n \in (0..MaxRowsLen) \cup {ASK_MAX_ROWS_DEFAULT + 1} }

InitCompose ==
    /\ ASK_DEFAULT_SINCE_DAYS = 7
    /\ ASK_MAX_ROWS = ASK_MAX_ROWS_DEFAULT
    /\ PROJECT \in BOOLEAN
    /\ CHAT_WEBHOOK_URL = FALSE
    /\ gen \in {g \in BOOLEAN : g => PROJECT}
    /\ table = {}
    /\ now = 0
    /\ \E q \in Questions, rows \in RowLists :
           call = [op |-> "llm_answer", user_prompt |-> q, rows |-> rows]
    /\ ret = [done |-> FALSE]

Compose ==
    /\ call.op = "llm_answer"
    /\ ~ret.done
    /\ \E reply \in Replies :
           ret' = [done |-> TRUE, reply |-> reply]
                  @@ llm_answer(call.user_prompt, call.rows, reply)
    /\ UNCHANGED <<config, table, now, call>>

NextCompose == Compose

SpecCompose == InitCompose /\ [][NextCompose]_vars

(***************************************************************************)
(* The claims of llm_answer.                                               *)
(***************************************************************************)
ComposeDone == call.op = "llm_answer" /\ ret.done

\* C5: the rows serialised into the prompt are the first
\* min(len(rows), 50) rows of the input, in their order; the collaborator
\* never receives more than 50 rows.
C5_PromptRowsCapped ==
    ComposeDone =>
        /\ Len(ret.prompt.context) <= 50
        /\ Len(call.rows) <= 50 => ret.prompt.context = call.rows
        /\ Len(call.rows) > 50 => Len(ret.prompt.context) = 50
        /\ \A i \in 1..Len(ret.prompt.context) : ret.prompt.context[i] = call.rows[i]

\* more than 50 rows, and more than the default fetch cap, handed to a
\* configured collaborator
C5_Witness ==
    /\ ComposeDone
    /\ ret.called
    /\ Len(call.rows) > ASK_MAX_ROWS
    /\ Len(ret.prompt.context) = 50

Contains(text, piece) == \E i \in 1..Len(text) : text[i] = piece

\* C6: llm_answer never raises; not configured, it returns the fallback with
\* the number of rows found and the question verbatim; on a failure of the
\* collaborator it returns a failure text different from the fallback;
\* otherwise it returns the collaborator's answer.
C6_ThreeOutcomes ==
    ComposeDone =>
        /\ ~ret.raised
        /\ ~gen =>
               /\ ~ret.called
               /\ Contains(ret.text, Num(Len(call.rows)))
               /\ Contains(ret.text, Str(call.user_prompt))
        /\ (gen /\ ret.reply.raise) =>
               /\ ret.text # <<>>
               /\ ret.text # ret.reply.text
               /\ \A q \in Questions, rows \in RowLists :
                      ret.text # NotConfiguredText(q, rows)
        /\ (gen /\ ~ret.reply.raise) => ret.text = ret.reply.text

\* the collaborator is configured and its call fails
C6_Witness ==
    /\ ComposeDone
    /\ gen
    /\ ret.reply.raise
    /\ Len(call.rows) > 0

(***************************************************************************)
(* JSON values of a /chat body.  An object is a set of <<key, value>>.     *)
(***************************************************************************)
JNull == [t |-> "null"]

JStr(cs) == [t |-> "str", s |-> cs]

JNum(n) == [t |-> "num", n |-> n]

JArr(xs) == [t |-> "arr", a |-> xs]

JObj(pairs) == [t |-> "obj", o |-> pairs]

\* Python truthiness of a decoded JSON value
Truthy(x) ==
    CASE x.t = "null" -> FALSE
      [] x.t = "str"  -> x.s # <<>>
      [] x.t = "num"  -> x.n # 0
      [] x.t = "arr"  -> x.a # <<>>
      [] x.t = "obj"  -> x.o # {}

Ok(x) == [err |-> FALSE, v |-> x]

AttributeError == [err |-> TRUE, v |-> JNull]

HasKey(obj, key) == \E p \in obj.o : p[1] = key

Lookup(obj, key) == (CHOOSE p \in obj.o : p[1] = key)[2]

\* x.get(key, default); only a dict has .get
PyGet(x, key, default) ==
    IF x.t # "obj" THEN AttributeError
    ELSE Ok(IF HasKey(x, key) THEN Lookup(x, key) ELSE default)

\* x.get(key)
PyGet1(x, key) == PyGet(x, key, JNull)

\* x.strip(); only a str has .strip
PyStrip(x) ==
    IF x.t # "str" THEN AttributeError ELSE Ok(JStr(Strip(x.s)))

(***************************************************************************)
(* The replies of chat_endpoint, app.py:273-387.                           *)
(***************************************************************************)
UsageAsk == <<Lit("Usage: /ask <question> [service:... since:N]")>>

UsageMention == <<Lit("Usage: @Prod Alert AI <question> or /ask <question>")>>

Greeting == <<Lit("Hey! I monitor production errors and can answer questions.")>>

DefaultHelp == <<Lit("I monitor production errors. Type /ask <question> or mention me to investigate.")>>

\* a returned dict {"text": text}
TextOnly(text) == [status |-> 200, keys |-> {"text"}, text |-> text, thread |-> JNull]

\* a returned dict {"text": ..., "thread": {"name": thread_name} if thread_name else None}
TextAndThread(text, thread_name) ==
    [status |-> 200, keys |-> {"text", "thread"}, text |-> text,
     thread |-> IF Truthy(thread_name) THEN JObj({<<"name", thread_name>>}) ELSE JNull]

\* _reply_text, app.py:54-62 (no route calls it)
reply_text(text, thread_name) ==
    IF Truthy(thread_name)
    THEN [keys |-> {"text", "thread"}, text |-> text,
          thread |-> JObj({<<"name", thread_name>>})]
    ELSE [keys |-> {"text"}, text |-> text, thread |-> JNull]

\* raise HTTPException(status_code=400), app.py:283
BadRequest == [status |-> 400, keys |-> {"detail"}, text |-> <<Lit("Invalid JSON")>>, thread |-> JNull]

\* an exception that leaves the handler: the server answers 500
ServerError == [status |-> 500, keys |-> {}, text |-> <<>>, thread |-> JNull]

\* parse, fetch, compose and reply: app.py:301-320, 336-355, 375-384
\* (the three copies are the same); the set of replies the route may give
Pipeline(text, thread_name, outcome, reply) ==
    LET parsed == parse_prompt_and_filters(text, ASK_DEFAULT_SINCE_DAYS)
    IN  { LET answer == llm_answer(parsed.prompt, rows, reply)
              q_and_a == <<Lit("**Q:** "), Str(parsed.prompt), Lit("\n**A:** ")>>
                         \o answer.text
              response_text ==
                  IF rows # <<>>
                  THEN q_and_a \o <<Lit("\n\n*Based on "), Num(Len(rows)),
                                    Lit(" recent alerts*")>>
                  ELSE q_and_a
          IN  IF answer.raised THEN ServerError
              ELSE TextAndThread(response_text, thread_name)
          : rows \in fetch_logs(parsed.service, parsed.since_days, outcome) }

\* a slash command or a mention: app.py:290-320 and 325-355
PayloadRoute(payload, usage, outcome, reply) ==
    LET message == PyGet(payload, "message", JObj({}))
        argument == IF message.err THEN AttributeError
                    ELSE PyGet(message.v, "argumentText", JStr(<<>>))
        text     == IF argument.err THEN AttributeError ELSE PyStrip(argument.v)
        thread   == IF message.err THEN AttributeError
                    ELSE PyGet(message.v, "thread", JObj({}))
        name     == IF thread.err THEN AttributeError ELSE PyGet1(thread.v, "name")
    IN  IF text.err \/ name.err THEN {ServerError}
        ELSE IF ~Truthy(text.v) THEN {TextOnly(usage)}
        ELSE Pipeline(text.v.s, name.v, outcome, reply)

\* the original event format: app.py:358-387
LegacyRoute(event, outcome, reply) ==
    LET message == PyGet1(event, "message")
        thread  == IF Truthy(message.v)
                   THEN PyGet(message.v, "thread", JObj({}))
                   ELSE Ok(JObj({}))
        name    == IF ~Truthy(message.v) THEN Ok(JNull)
                   ELSE IF thread.err THEN AttributeError
                   ELSE PyGet1(thread.v, "name")
        etype   == PyGet1(event, "type")
    IN  IF name.err THEN {ServerError}
        ELSE IF etype.v = JStr(<<"A", "D", "D", "E", "D", "_", "T", "O", "_",
                                 "S", "P", "A", "C", "E">>)
        THEN {TextOnly(Greeting)}
        ELSE IF etype.v = JStr(<<"M", "E", "S", "S", "A", "G", "E">>)
        THEN LET msg      == PyGet(event, "message", JObj({}))
                 argument == PyGet1(msg.v, "argumentText")
                 plain    == PyGet1(msg.v, "text")
                 chosen   == IF argument.err THEN AttributeError
                             ELSE IF Truthy(argument.v) THEN argument
                             ELSE IF plain.err THEN AttributeError
                             ELSE IF Truthy(plain.v) THEN plain
                             ELSE Ok(JStr(<<>>))
                 text     == IF chosen.err THEN AttributeError ELSE PyStrip(chosen.v)
             IN  IF text.err THEN {ServerError}
                 ELSE IF ~Truthy(text.v) THEN {TextOnly(UsageAsk)}
                 ELSE Pipeline(text.v.s, name.v, outcome, reply)
        ELSE {TextOnly(DefaultHelp)}

\* the replies POST /chat may give to a body; body = [json, event]
chat_endpoint(body, outcome, reply) ==
    IF ~body.json THEN {BadRequest}
    ELSE LET event == body.event
             chat  == PyGet1(event, "chat")
             app   == IF chat.err THEN AttributeError
                      ELSE IF Truthy(chat.v) THEN PyGet1(chat.v, "appCommandPayload")
                      ELSE Ok(JNull)
             msg   == IF chat.err THEN AttributeError
                      ELSE IF Truthy(chat.v) THEN PyGet1(chat.v, "messagePayload")
                      ELSE Ok(JNull)
         IN  IF chat.err \/ app.err THEN {ServerError}
             ELSE IF Truthy(app.v)
             THEN PayloadRoute(app.v, UsageAsk, outcome, reply)
             ELSE IF Truthy(msg.v)
             THEN PayloadRoute(msg.v, UsageMention, outcome, reply)
             ELSE LegacyRoute(event, outcome, reply)

(***************************************************************************)
(* POST /alert: app.py:72-161 and 252-271.                                 *)
(***************************************************************************)
StackTraceCap == 200

\* the severity glyph, app.py:97-102
SeverityEmoji(severity) ==
    CASE severity = "LOW"      -> "yellow"
      [] severity = "MEDIUM"   -> "orange"
      [] severity = "HIGH"     -> "red"
      [] severity = "CRITICAL" -> "siren"
      [] OTHER                 -> "white"

\* format_error_notification, app.py:91-126; the severities of the alerts
\* modelled are upper case already or have no glyph in either case
format_error_notification(alert) ==
    << Lit(SeverityEmoji(alert.severity)), Lit(" **Production Error Alert**"),
       Lit("**Service:** "), Str(alert.service),
       Lit("**Severity:** "), Lit(alert.severity),
       Lit("**Time:** "), Num(IF alert.timestamp.some THEN alert.timestamp.v ELSE now) >>
    \o (IF alert.affected_users # 0
        THEN <<Lit("**Affected Users:** ~"), Num(alert.affected_users)>>
        ELSE <<>>)
    \o (IF alert.stack_trace # <<>>
        THEN <<Lit("**Stack Trace:** "),
               Str(IF Len(alert.stack_trace) > StackTraceCap
                   THEN SubSeq(alert.stack_trace, 1, StackTraceCap) \o <<".", ".", ".">>
                   ELSE alert.stack_trace)>>
        ELSE <<>>)
    \o <<Lit("Type /ask <question> to investigate this error")>>

\* what the webhook does with the POST: "ok", or a RequestException
\* (connection error, timeout, HTTP error status)
PostOutcomes == {"ok", "RequestException"}

\* send_chat_notification, app.py:72-89
send_chat_notification_uncaught(message, post) ==
    IF ~CHAT_WEBHOOK_URL THEN [raised |-> FALSE, value |-> FALSE, posted |-> FALSE]
    ELSE IF post = "ok" THEN [raised |-> FALSE, value |-> TRUE, posted |-> TRUE]
    ELSE [raised |-> TRUE, value |-> FALSE, posted |-> FALSE]

send_chat_notification(message, post) ==
    IF ~CHAT_WEBHOOK_URL THEN [raised |-> FALSE, value |-> FALSE, posted |-> FALSE]
    ELSE IF post = "ok" THEN [raised |-> FALSE, value |-> TRUE, posted |-> TRUE]
    ELSE [raised |-> FALSE, value |-> FALSE, posted |-> FALSE]

\* what the table does with the insert: "ok", row errors, or an exception
InsertOutcomes == {"ok", "errors", "raise"}

\* the row of app.py:139-149, with the columns fetch_logs reads
AlertRow(alert) ==
    [id      |-> Cardinality(table) + 1,
     ts      |-> IF alert.timestamp.some THEN alert.timestamp.v ELSE now,
     service |-> alert.service]

\* store_alert_in_bigquery, app.py:128-161
store_alert_in_bigquery(alert, insert) ==
    IF ~PROJECT THEN [raised |-> FALSE, value |-> FALSE, rows |-> {}]
    ELSE IF insert = "ok"
    THEN [raised |-> FALSE, value |-> TRUE, rows |-> {AlertRow(alert)}]
    ELSE [raised |-> FALSE, value |-> FALSE, rows |-> {}]

\* receive_alert, app.py:252-271: the calls made in order, the rows written
\* and the HTTP response
receive_alert(alert, post, insert) ==
    LET notification_message == format_error_notification(alert)
        sent   == send_chat_notification(notification_message, post)
        stored == store_alert_in_bigquery(alert, insert)
        body   == [service |-> alert.service, timestamp |-> now]
    IN  IF sent.raised
        THEN body @@
             [status |-> 500, calls |-> <<"send_chat_notification">>,
              posted |-> FALSE, rows |-> {},
              notification_sent |-> FALSE, bigquery_stored |-> FALSE]
        ELSE IF stored.raised
        THEN body @@
             [status |-> 500,
              calls |-> <<"send_chat_notification", "store_alert_in_bigquery">>,
              posted |-> sent.posted, rows |-> {},
              notification_sent |-> FALSE, bigquery_stored |-> FALSE]
        ELSE body @@
             [status |-> 200,
              calls |-> <<"send_chat_notification", "store_alert_in_bigquery">>,
              posted |-> sent.posted, rows |-> stored.rows,
              notification_sent |-> sent.value, bigquery_stored |-> stored.value]

\* ErrorAlert, app.py:42-51 (affected_users 0 and stack_trace <<>> stand for
\* the absent or falsy value)
Alerts ==
    [service        : ServiceNames,
     timestamp      : {None} \cup {Some(d) : d \in 0..MaxTick},
     severity       : {"CRITICAL", "weird"},
     affected_users : {0, 500},
     stack_trace    : {<<>>}]

(***************************************************************************)
(* Bodies of POST /chat.                                                   *)
(***************************************************************************)
OptPair(key, values) == {{}} \cup { {<<key, x>>} : x \in values }

WhyText == JStr(<<"w", "h", "y", " ", "s", "e", "r", "v", "i", "c", "e", ":", "A", "U">>)

PingText == JStr(<<"p", "i", "n", "g">>)

ThreadT1 == JObj({<<"name", JStr(<<"t", "1">>)>>})

Messages ==
    {JNull} \cup
    { JObj(a \cup b \cup c) :
          a \in OptPair("argumentText", {JNull, JStr(<<>>), WhyText}),
          b \in OptPair("text", {PingText}),
          c \in OptPair("thread", {JNull, ThreadT1}) }

Payloads ==
    {JNull, JStr(<<"x">>), JObj({}), JObj({<<"space", JNull>>})} \cup
    { JObj({<<"message", m>>}) : m \in Messages }

Chats ==
    {JNull, JStr(<<"x">>)} \cup
    { JObj({<<"appCommandPayload", p>>}) : p \in Payloads } \cup
    { JObj({<<"messagePayload", p>>}) : p \in Payloads }

AddedToSpace == JStr(<<"A", "D", "D", "E", "D", "_", "T", "O", "_", "S", "P", "A", "C", "E">>)

EventTypes ==
    { AddedToSpace,
      JStr(<<"M", "E", "S", "S", "A", "G", "E">>),
      JStr(<<"C", "A", "R", "D">>) }

Events ==
    {JNull, JStr(<<"x">>), JNum(5), JArr(<<>>)} \cup
    { JObj({<<"chat", c>>} \cup t) :
          c \in Chats, t \in OptPair("type", {AddedToSpace}) } \cup
    { JObj(m \cup t) :
          m \in OptPair("message", Messages \cup {JStr(<<"x">>)}),
          t \in OptPair("type", EventTypes) }

Bodies == {[json |-> FALSE, event |-> JNull]} \cup {[json |-> TRUE, event |-> e] : e \in Events}

\* the answers the collaborator gives in the service
ChatReplies ==
    { [raise |-> FALSE, text |-> <<Lit("auth failed twice")>>],
      [raise |-> TRUE,  text |-> <<Lit("quota exceeded")>>] }

(***************************************************************************)
(* The service: the routes of app.py:248-387 on one process.               *)
(***************************************************************************)
Init ==
    /\ ASK_DEFAULT_SINCE_DAYS \in DefaultSinceChoices
    /\ ASK_MAX_ROWS \in {1, MaxCap}
    /\ PROJECT \in BOOLEAN
    /\ CHAT_WEBHOOK_URL \in BOOLEAN
    /\ gen \in {g \in BOOLEAN : g => PROJECT}
    /\ table = {}
    /\ now = 0
    /\ call = [op |-> "none"]
    /\ ret = [done |-> FALSE]

\* The routes are async functions that never await while they work, so
\* the event loop runs one request at a time, to its end.
Idle == call.op = "none"

\* GET /, app.py:248-250
Health ==
    /\ Idle
    /\ call' = [op |-> "health"]
    /\ ret' = [done |-> TRUE, status |-> 200, text |-> <<Lit("Chat Alert Bot - OK")>>]
    /\ UNCHANGED <<config, table, now>>

\* POST /alert
ReceiveAlert ==
    /\ Idle
    /\ Cardinality(table) < MaxAlerts
    /\ \E alert \in Alerts, post \in PostOutcomes, insert \in InsertOutcomes :
           LET r == receive_alert(alert, post, insert)
           IN  /\ table' = table \cup r.rows
               /\ call' = [op |-> "receive_alert", alert |-> alert]
               /\ ret' = [done |-> TRUE, post |-> post, insert |-> insert] @@ r
    /\ UNCHANGED <<config, now>>

\* POST /chat
ChatEndpoint ==
    /\ Idle
    /\ \E body \in Bodies, outcome \in QueryOutcomes, reply \in ChatReplies :
       \E r \in chat_endpoint(body, outcome, reply) :
           /\ call' = [op |-> "chat_endpoint", body |-> body]
           /\ ret' = [done |-> TRUE] @@ r
    /\ UNCHANGED <<config, table, now>>

\* the response leaves; the process waits for the next request
Respond ==
    /\ ~Idle
    /\ call' = [op |-> "none"]
    /\ ret' = [done |-> FALSE]
    /\ UNCHANGED <<config, table, now>>

\* the clock advances between requests
Tick ==
    /\ Idle
    /\ now < MaxTick
    /\ now' = now + 1
    /\ UNCHANGED <<config, table, call, ret>>

Next == Health \/ ReceiveAlert \/ ChatEndpoint \/ Respond \/ Tick

Spec == Init /\ [][Next]_vars

(***************************************************************************)
(* The claims of the routes.                                               *)
(***************************************************************************)
AlertDone == call.op = "receive_alert" /\ ret.done

ChatDone == call.op = "chat_endpoint" /\ ret.done

\* C8: POST /chat rejects only a body that is not JSON, with 400; every body
\* that parses as JSON, whatever its shape, gets a response object with a
\* text field.
C8_JsonAlwaysAnswered ==
    ChatDone =>
        /\ ~call.body.json => ret.status = 400
        /\ call.body.json => (ret.status = 200 /\ "text" \in ret.keys)

IsAddedToSpace(event) ==
    event.t = "obj" /\ HasKey(event, "type") /\ Lookup(event, "type") = AddedToSpace

\* C9: every event whose type is ADDED_TO_SPACE, when it is answered at all,
\* is answered with the static greeting, whatever other fields it has.
C9_AddedToSpaceGreets ==
    (ChatDone /\ call.body.json /\ IsAddedToSpace(call.body.event) /\ ret.status = 200) =>
        ret.text = Greeting

\* the value at a path of keys, JNull where the path leaves the objects
RECURSIVE At(_, _)
At(x, path) ==
    IF path = <<>> THEN x
    ELSE IF x.t = "obj" /\ HasKey(x, Head(path))
         THEN At(Lookup(x, Head(path)), Tail(path))
         ELSE JNull

\* the thread identifiers an event carries
ThreadNames(event) ==
    { n \in { At(event, <<"chat", "appCommandPayload", "message", "thread", "name">>),
              At(event, <<"chat", "messagePayload", "message", "thread", "name">>),
              At(event, <<"message", "thread", "name">>) } : n.t = "str" }

\* C10: a response to an event that carries a thread identifier has
\* thread = {name: identifier}; a response to an event that carries none
\* has no thread field.
C10_ThreadEchoed ==
    (ChatDone /\ call.body.json /\ ret.status = 200) =>
        /\ \A n \in ThreadNames(call.body.event) :
               "thread" \in ret.keys /\ ret.thread = JObj({<<"name", n>>})
        /\ ThreadNames(call.body.event) = {} => "thread" \notin ret.keys

====
